---- MODULE Spec2Model ----
(***************************************************************************)
(* A model of subtitleLLM's SubtitleGenerator (src/core/subtitle_generator  *)
(* .py): the line wrapping of a segment's text, the conversion of a seconds *)
(* value to an SRT time and the loop of generate_srt that builds the cues.  *)
(*                                                                          *)
(* A Python str is a sequence of one-character strings.  A float seconds    *)
(* value is given by its decimal digits (whole seconds, milliseconds and    *)
(* fifths of a microsecond); what IEEE double arithmetic makes of it is     *)
(* computed in integers, see FracTimes1000.                                 *)
(***************************************************************************)
EXTENDS Integers, Sequences, FiniteSets, TLC

VARIABLES
  max_chars_per_line,      \* SubtitleGenerator.max_chars_per_line
  max_lines_per_subtitle,  \* SubtitleGenerator.max_lines_per_subtitle
  text,                    \* argument of _format_subtitle_text
  lines,                   \* its local list `lines` when it returns
  formatted_text,          \* its return value, "\n".join(lines)
  seconds,                 \* argument of _seconds_to_srt_time
  srt_time,                \* its return value, a pysrt.SubRipTime
  segments,                \* argument of generate_srt
  srt_file,                \* the items saved to output_path
  pc,                      \* "call" before the operation; "done" when it
                           \* has returned, "raised" when it has raised
  environ,                 \* os.environ: the value of each variable, "" if unset
  argv,                    \* the arguments of the operation called
  faults,                  \* the collaborators that fail when they are called
  llm,                     \* the replies of the LLM API, one per call
  fs,                      \* the files that exist, each with its content
  calls,                   \* the collaborator calls made, in order
  result                   \* what the operation returned or raised

\* The state outside SubtitleGenerator.
pipeline == <<environ, argv, faults, llm, fs, calls, result>>

vars == <<max_chars_per_line, max_lines_per_subtitle, text, lines,
          formatted_text, seconds, srt_time, segments, srt_file, pc,
          environ, argv, faults, llm, fs, calls, result>>

NoResult == [kind |-> "none"]
Returned(v) == [kind |-> "return", value |-> v]
Raised(e) == [kind |-> "raise", exc |-> e]

\* Nothing outside SubtitleGenerator takes part.
PipelineIdle ==
  /\ environ = <<>>
  /\ argv = <<>>
  /\ faults = {}
  /\ llm = <<>>
  /\ fs = <<>>
  /\ calls = <<>>
  /\ result = NoResult

(***************************************************************************)
(* Bounds of the model and constants of the program.                        *)
(***************************************************************************)
MaxTextLen == 7
MaxChars == 3
MaxLines == 3
MaxHours == 1
MaxSegments == 3

DefaultMaxChars == 32
DefaultMaxLines == 2

Letters == {"a", "b"}
Whitespace == {" ", "\t", "\n"}
Alphabet == Letters \cup {" "}

QuickBrownFox ==
  <<"t", "h", "e", " ", "q", "u", "i", "c", "k", " ", "b", "r", "o", "w", "n", " ",
    "f", "o", "x", " ", "j", "u", "m", "p", "s">>
Hi ==
  <<"h", "i">>
long_text ==
  <<"T", "h", "i", "s", " ", "i", "s", " ", "a", " ", "v", "e", "r", "y", " ", "l",
    "o", "n", "g", " ", "t", "e", "x", "t", " ", "t", "h", "a", "t", " ", "n", "e",
    "e", "d", "s", " ", "t", "o", " ", "b", "e", " ", "s", "p", "l", "i", "t", " ",
    "i", "n", "t", "o", " ", "m", "u", "l", "t", "i", "p", "l", "e", " ", "l", "i",
    "n", "e", "s", " ", "t", "o", " ", "f", "i", "t", " ", "s", "u", "b", "t", "i",
    "t", "l", "e", " ", "d", "i", "s", "p", "l", "a", "y", " ", "r", "e", "q", "u",
    "i", "r", "e", "m", "e", "n", "t", "s">>

(***************************************************************************)
(* str.split() and str.strip(): whitespace-separated words, and the string  *)
(* without its leading and trailing whitespace.                             *)
(***************************************************************************)
\* The positions where a word of s starts, and where the word at i ends.
WordStarts(s) ==
  {i \in 1..Len(s) : s[i] \notin Whitespace /\ (i = 1 \/ s[i - 1] \in Whitespace)}

WordEnd(s, i) ==
  CHOOSE j \in i..Len(s) :
    /\ \A k \in i..j : s[k] \notin Whitespace
    /\ (j = Len(s) \/ s[j + 1] \in Whitespace)

\* s.split(): the maximal runs of non-whitespace characters, in order.
split(s) ==
  LET starts == WordStarts(s)
      nth(k) == CHOOSE i \in starts : Cardinality({x \in starts : x < i}) = k - 1
  IN [k \in 1..Cardinality(starts) |-> SubSeq(s, nth(k), WordEnd(s, nth(k)))]

RECURSIVE lstrip(_)
lstrip(s) ==
  IF s # <<>> /\ Head(s) \in Whitespace THEN lstrip(Tail(s)) ELSE s

RECURSIVE rstrip(_)
rstrip(s) ==
  IF s # <<>> /\ s[Len(s)] \in Whitespace
  THEN rstrip(SubSeq(s, 1, Len(s) - 1))
  ELSE s

strip(s) == rstrip(lstrip(s))

\* sep.join(items)
RECURSIVE join(_, _)
join(sep, items) ==
  IF items = <<>> THEN <<>>
  ELSE IF Len(items) = 1 THEN items[1]
  ELSE items[1] \o <<sep>> \o join(sep, Tail(items))

(***************************************************************************)
(* _format_subtitle_text.  The loop state is the list `lines`, the string   *)
(* `current_line` and whether the loop was left by `break`.                 *)
(***************************************************************************)
\* The word added to the line without the blank between them.
test_line_unspaced(current_line, word) == current_line \o word

test_line(current_line, word) ==
  current_line \o (IF current_line # <<>> THEN <<" ">> ELSE <<>>) \o word

\* A line break that also closes a line nothing was put on.
WrapBodyClosingEmpty(st, word, W, N) ==
  IF Len(test_line(st.current_line, word)) <= W
  THEN [st EXCEPT !.current_line = test_line(st.current_line, word)]
  ELSE LET ls == Append(st.lines, st.current_line)
       IN [lines |-> ls, current_line |-> word, broke |-> Len(ls) >= N]

\* A line break that cuts an over-long word to the width instead of keeping it.
WrapBodyCutting(st, word, W, N) ==
  IF Len(test_line(st.current_line, word)) <= W
  THEN [st EXCEPT !.current_line = test_line(st.current_line, word)]
  ELSE LET ls == IF st.current_line # <<>>
                 THEN Append(st.lines, st.current_line) ELSE st.lines
       IN [lines |-> ls,
           current_line |-> SubSeq(word, 1, W),
           broke |-> Len(ls) >= N]

\* The width test applied to the line before the word is added to it.
WrapBodyLateTest(st, word, W, N) ==
  IF Len(st.current_line) <= W
  THEN [st EXCEPT !.current_line = test_line(st.current_line, word)]
  ELSE LET ls == IF st.current_line # <<>>
                 THEN Append(st.lines, st.current_line) ELSE st.lines
       IN [lines |-> ls, current_line |-> word, broke |-> Len(ls) >= N]

\* The loop body without its `break`.
WrapBodyNoBreak(st, word, W, N) ==
  IF Len(test_line(st.current_line, word)) <= W
  THEN [st EXCEPT !.current_line = test_line(st.current_line, word)]
  ELSE LET ls == IF st.current_line # <<>>
                 THEN Append(st.lines, st.current_line) ELSE st.lines
       IN [lines |-> ls, current_line |-> word, broke |-> FALSE]

\* One pass of `for word in words:` (lines 77-85).
WrapBody(st, word, W, N) ==
  IF Len(test_line(st.current_line, word)) <= W
  THEN [st EXCEPT !.current_line = test_line(st.current_line, word)]
  ELSE LET ls == IF st.current_line # <<>>
                 THEN Append(st.lines, st.current_line) ELSE st.lines
       IN [lines |-> ls, current_line |-> word, broke |-> Len(ls) >= N]

RECURSIVE WrapLoop(_, _, _, _)
WrapLoop(words, st, W, N) ==
  IF words = <<>> \/ st.broke
  THEN st
  ELSE WrapLoop(Tail(words), WrapBody(st, Head(words), W, N), W, N)

\* The pending line appended whatever the number of lines is.
WrapTailAlways(st, W, N) ==
  IF st.current_line # <<>> THEN Append(st.lines, st.current_line) ELSE st.lines

\* After the loop (lines 87-88): the pending line, if the budget allows it.
WrapTail(st, W, N) ==
  IF st.current_line # <<>> /\ Len(st.lines) < N
  THEN Append(st.lines, st.current_line)
  ELSE st.lines

\* The list `lines` at the return of _format_subtitle_text(txt).
format_lines(txt, W, N) ==
  WrapTail(WrapLoop(split(txt),
                    [lines |-> <<>>, current_line |-> <<>>, broke |-> FALSE],
                    W, N),
           W, N)

format_subtitle_text(txt, W, N) == join("\n", format_lines(txt, W, N))

(***************************************************************************)
(* The specification of one call of _format_subtitle_text.                  *)
(***************************************************************************)
ZeroSeconds == [whole |-> 0, millis |-> 0, fifths |-> 0]
ZeroTime == [hours |-> 0, minutes |-> 0, seconds |-> 0, milliseconds |-> 0]

InitWrap ==
  /\ \/ /\ \E n \in 0..MaxTextLen : text \in [1..n -> Alphabet]
        /\ max_chars_per_line \in 1..MaxChars
        /\ max_lines_per_subtitle \in 1..MaxLines
     \/ /\ text \in {QuickBrownFox, Hi, long_text}
        /\ max_chars_per_line \in {10, DefaultMaxChars}
        /\ max_lines_per_subtitle = DefaultMaxLines
  /\ lines = <<>>
  /\ formatted_text = <<>>
  /\ seconds = ZeroSeconds
  /\ srt_time = ZeroTime
  /\ segments = <<>>
  /\ srt_file = <<>>
  /\ pc = "call"
  /\ PipelineIdle

FormatSubtitleText ==
  /\ pc = "call"
  /\ lines' = format_lines(text, max_chars_per_line, max_lines_per_subtitle)
  /\ formatted_text' =
       format_subtitle_text(text, max_chars_per_line, max_lines_per_subtitle)
  /\ pc' = "done"
  /\ UNCHANGED <<max_chars_per_line, max_lines_per_subtitle, text, seconds,
                 srt_time, segments, srt_file>>
  /\ UNCHANGED pipeline

NextWrap == FormatSubtitleText

SpecWrap == InitWrap /\ [][NextWrap]_vars

(***************************************************************************)
(* Reference notions for the claims about _format_subtitle_text.            *)
(***************************************************************************)
\* The length of words[1..n] joined by single blanks.
RECURSIVE JoinedLen(_, _)
JoinedLen(words, n) ==
  IF n = 0 THEN 0
  ELSE JoinedLen(words, n - 1) + Len(words[n]) + (IF n > 1 THEN 1 ELSE 0)

\* How many words a greedy line takes: as many as fit, and at least one.
FirstLineCount(words, W) ==
  LET fits == {n \in 1..Len(words) : JoinedLen(words, n) <= W}
  IN IF fits = {} THEN 1 ELSE CHOOSE n \in fits : \A m \in fits : m <= n

\* The greedy wrap without a line budget, each line as its list of words.
RECURSIVE Greedy(_, _)
Greedy(words, W) ==
  IF words = <<>> THEN <<>>
  ELSE LET n == FirstLineCount(words, W)
       IN <<SubSeq(words, 1, n)>> \o Greedy(SubSeq(words, n + 1, Len(words)), W)

RECURSIVE Flatten(_)
Flatten(ss) == IF ss = <<>> THEN <<>> ELSE Head(ss) \o Flatten(Tail(ss))

\* The words of a list of lines, in order.
WordsOf(ls) == Flatten([i \in 1..Len(ls) |-> split(ls[i])])

\* str.split("\n") of the returned text: what a reader of the cue counts.
SplitOn(s, sep) ==
  LET cuts == {i \in 1..Len(s) : s[i] = sep} \cup {0, Len(s) + 1}
      nth(k) == CHOOSE i \in cuts : Cardinality({x \in cuts : x < i}) = k - 1
  IN [k \in 1..(Cardinality(cuts) - 1) |->
        SubSeq(s, nth(k) + 1, nth(k + 1) - 1)]

TextWords == split(text)
GreedyLines == Greedy(TextWords, max_chars_per_line)

TheQuick == <<"t", "h", "e", " ", "q", "u", "i", "c", "k">>
BrownFox == <<"b", "r", "o", "w", "n", " ", "f", "o", "x">>

\* C1: a call of _format_subtitle_text with max_lines_per_subtitle = N >= 1
\* returns at most N lines, as the list `lines` and as the lines of the
\* returned text.
C1_LineCountBound ==
  pc = "done" =>
    /\ Len(lines) <= max_lines_per_subtitle
    /\ Len(SplitOn(formatted_text, "\n")) <= max_lines_per_subtitle

\* A call that filled the budget and dropped words.
C1_Witness ==
  /\ pc = "done"
  /\ Len(lines) = max_lines_per_subtitle
  /\ Len(GreedyLines) > max_lines_per_subtitle

\* C2: every returned line is at most max_chars_per_line long, unless it is
\* one single word that is itself longer than max_chars_per_line.
C2_WidthBound ==
  pc = "done" =>
    \A i \in 1..Len(lines) :
      \/ Len(lines[i]) <= max_chars_per_line
      \/ /\ Len(split(lines[i])) = 1
         /\ split(lines[i])[1] = lines[i]

\* A result with an over-long single word line and a line of exactly the width.
C2_Witness ==
  /\ pc = "done"
  /\ \E i \in 1..Len(lines) : Len(lines[i]) > max_chars_per_line
  /\ \E j \in 1..Len(lines) : Len(lines[j]) = max_chars_per_line

\* C3: when the greedy wrap needs more than N = max_lines_per_subtitle lines,
\* the output holds the words of the first N greedy lines and no others: its
\* words are a proper prefix of the words of the text.  The quick brown fox
\* at width 10 and 2 lines gives "the quick", "brown fox".
C3_TruncatingWrap ==
  pc = "done" =>
    /\ Len(GreedyLines) > max_lines_per_subtitle =>
         /\ WordsOf(lines) =
              Flatten(SubSeq(GreedyLines, 1, max_lines_per_subtitle))
         /\ Len(WordsOf(lines)) < Len(TextWords)
         /\ WordsOf(lines) = SubSeq(TextWords, 1, Len(WordsOf(lines)))
    /\ (text = QuickBrownFox /\ max_chars_per_line = 10
          /\ max_lines_per_subtitle = DefaultMaxLines) =>
         lines = <<TheQuick, BrownFox>>

\* The quick brown fox, wrapped and truncated.
C3_Witness ==
  /\ pc = "done"
  /\ text = QuickBrownFox
  /\ max_chars_per_line = 10
  /\ max_lines_per_subtitle = DefaultMaxLines
  /\ Len(GreedyLines) > max_lines_per_subtitle
  /\ lines = <<TheQuick, BrownFox>>

\* The number of lines begun before word i of the text is reached.
LinesBefore(i) ==
  Len(Greedy(SubSeq(TextWords, 1, i - 1), max_chars_per_line))

\* C4: a word longer than max_chars_per_line that is reached while a line of
\* the budget is still free (fewer than max_lines_per_subtitle lines were
\* begun before it) is in the output whole and alone on its line, be it the
\* first, a middle or the last word of the text.
C4_SingleWordOverflow ==
  pc = "done" =>
    \A i \in 1..Len(TextWords) :
      (Len(TextWords[i]) > max_chars_per_line
         /\ LinesBefore(i) < max_lines_per_subtitle) =>
        /\ Len(lines) > LinesBefore(i)
        /\ lines[LinesBefore(i) + 1] = TextWords[i]

\* An over-long word between two other words, all three in the output.
C4_Witness ==
  /\ pc = "done"
  /\ \E i \in 2..(Len(TextWords) - 1) :
       /\ Len(TextWords[i]) > max_chars_per_line
       /\ LinesBefore(i) < max_lines_per_subtitle
       /\ lines[LinesBefore(i) + 1] = TextWords[i]
       /\ Len(lines) > LinesBefore(i) + 1

\* C15: the returned lines are the first min(N, |G|) lines of the greedy
\* wrap G made without a line budget; when G has no more than N lines, the
\* words of the returned lines are the words of the text, each once and in
\* order, the pending last line included.
C15_PrefixOfGreedyWrap ==
  pc = "done" =>
    LET n == IF Len(GreedyLines) < max_lines_per_subtitle
             THEN Len(GreedyLines) ELSE max_lines_per_subtitle
    IN /\ lines = [i \in 1..n |-> join(" ", GreedyLines[i])]
       /\ formatted_text = join("\n", [i \in 1..n |-> join(" ", GreedyLines[i])])
       /\ Len(GreedyLines) <= max_lines_per_subtitle => WordsOf(lines) = TextWords

\* A text whose greedy wrap fills the budget exactly: the last line is the
\* pending one and holds more than one word, and no word is lost.
C15_Witness ==
  /\ pc = "done"
  /\ Len(GreedyLines) = max_lines_per_subtitle
  /\ Len(lines) >= 2
  /\ Len(GreedyLines[Len(GreedyLines)]) >= 2
  /\ WordsOf(lines) = TextWords

\* C16: a text with at least one word gives at least one line, no returned
\* line is empty, and the first line starts with the first word of the text.
C16_NoEmptyCue ==
  (pc = "done" /\ TextWords # <<>>
     /\ max_chars_per_line >= 1 /\ max_lines_per_subtitle >= 1) =>
    /\ Len(lines) >= 1
    /\ formatted_text # <<>>
    /\ \A i \in 1..Len(lines) : lines[i] # <<>>
    /\ Len(lines[1]) >= Len(TextWords[1])
    /\ SubSeq(lines[1], 1, Len(TextWords[1])) = TextWords[1]
    /\ Len(lines[1]) > Len(TextWords[1]) => lines[1][Len(TextWords[1]) + 1] = " "

\* The first word is longer than the width: the first line break finds
\* nothing to close, and the word is the first line.
C16_Witness ==
  /\ pc = "done"
  /\ TextWords # <<>>
  /\ Len(TextWords[1]) > max_chars_per_line
  /\ Len(lines) >= 2
  /\ lines[1] = TextWords[1]

(***************************************************************************)
(* _seconds_to_srt_time.                                                    *)
(*                                                                          *)
(* The argument is the double nearest to the decimal value                  *)
(*     whole + millis / 1000 + fifths / 5000000,                            *)
(* whole seconds, milliseconds 0..999 and fifths of a microsecond 0..4999.  *)
(* On this grid the value is never half way between two microseconds, so    *)
(* the microsecond timedelta rounds to does not depend on the last bits of  *)
(* the double.  Whole seconds stay below 2^18.                              *)
(***************************************************************************)
RECURSIVE Log2Floor(_)
Log2Floor(n) == IF n < 2 THEN 0 ELSE 1 + Log2Floor(n \div 2)

RECURSIVE Pow2(_)
Pow2(n) == IF n = 0 THEN 1 ELSE 2 * Pow2(n - 1)

RECURSIVE Pow2Mod1000(_)
Pow2Mod1000(n) == IF n = 0 THEN 1 ELSE (2 * Pow2Mod1000(n - 1)) % 1000

\* timedelta(seconds=s), line 102: s rounded to the nearest microsecond and
\* normalised to whole seconds (days folded in) and 0..999999 microseconds.
timedelta(s) ==
  LET us == s.millis * 1000 + (s.fifths \div 5)
              + (IF s.fifths % 5 >= 3 THEN 1 ELSE 0)
  IN [seconds |-> s.whole + (us \div 1000000), microseconds |-> us % 1000000]

\* int(td.total_seconds()), line 103.  total_seconds() is the double nearest
\* to seconds + microseconds / 10^6; below 2^18 seconds it cannot reach the
\* next whole number, so truncation gives the whole seconds.
int_total_seconds(td) == td.seconds

\* The exponent e of the double T = td.total_seconds(): 2^e <= T < 2^(e+1).
RECURSIVE NegExponent(_)
NegExponent(us) == IF us >= 1000000 THEN 0 ELSE 1 + NegExponent(2 * us)

BinaryExponent(td) ==
  IF td.seconds >= 1 THEN Log2Floor(td.seconds)
  ELSE 0 - NegExponent(td.microseconds)

\* int((td.total_seconds() - total_seconds) * 1000), line 107, as IEEE double
\* arithmetic computes it.  With q whole milliseconds in td.microseconds:
\*  - T = td.total_seconds() is a multiple of 2^(e-52); T - total_seconds is
\*    exact, so it is microseconds / 10^6 rounded to that grid;
\*  - when the microseconds are not a whole number of milliseconds the product
\*    is at least 0.001 from a whole number, far more than the rounding error,
\*    and int() gives q;
\*  - otherwise the fraction is q / 1000 rounded to the grid.  With
\*    r = (q * 2^(52-e)) mod 1000: r = 0 is exact, r > 500 rounds up, and the
\*    product is then at least q; r < 500 rounds down by r * 2^(e-52) / 1000
\*    (r = 500 cannot happen for e < 50).  The product q - r * 2^(e-52) is
\*    rounded to a double: to q when it is no further from q than half the
\*    spacing of the doubles below q, which is 2^(j-53) for 2^j < q and
\*    2^(j-54) for q = 2^j; if not, the result is below q and int() gives
\*    q - 1.
FracTimes1000(td) ==
  LET q == td.microseconds \div 1000
      rem == td.microseconds % 1000
      e == BinaryExponent(td)
      r == (q * Pow2Mod1000(52 - e)) % 1000
      j == Log2Floor(q)
      sh == e + 1 - j + (IF Pow2(j) = q THEN 1 ELSE 0)
  IN IF rem # 0 \/ q = 0 THEN q
     ELSE IF r = 0 \/ r > 500 THEN q
     ELSE IF sh >= 0 THEN (IF r = 1 /\ sh = 0 THEN q ELSE q - 1)
     ELSE IF r <= Pow2(0 - sh) THEN q ELSE q - 1

\* The hours of the time of day only, as td.seconds // 3600 would give.
HoursOfDay(total_seconds) == (total_seconds \div 3600) % 24

\* hours = total_seconds // 3600, line 104.
hours_of(total_seconds) == total_seconds \div 3600

\* The minutes without the reduction modulo one hour.
MinutesUnreduced(total_seconds) == total_seconds \div 60

\* minutes = (total_seconds % 3600) // 60, line 105.
minutes_of(total_seconds) == (total_seconds % 3600) \div 60

\* seconds = total_seconds % 60, line 106.
seconds_of(total_seconds) == total_seconds % 60

\* pysrt.SubRipTime(hours, minutes, seconds, milliseconds), lines 109-114.
SubRipTime(h, m, sec, ms) ==
  [hours |-> h, minutes |-> m, seconds |-> sec, milliseconds |-> ms]

seconds_to_srt_time(s) ==
  LET td == timedelta(s)
      total_seconds == int_total_seconds(td)
  IN SubRipTime(hours_of(total_seconds), minutes_of(total_seconds),
                seconds_of(total_seconds), FracTimes1000(td))

(***************************************************************************)
(* The specification of one call of _seconds_to_srt_time.                   *)
(***************************************************************************)
BoundaryMinutes == {0, 1, 59}
BoundarySeconds == {0, 1, 30, 59}
\* 0, 0.4 and 0.6 microseconds, and 0.6 and 0.4 microseconds below the next
\* millisecond.
BoundaryFifths == {0, 2, 3, 4997, 4998}

InitTime ==
  /\ \E h \in (0..MaxHours) \cup {25}, m \in BoundaryMinutes,
        c \in BoundarySeconds, ms \in 0..999, f \in BoundaryFifths :
       seconds = [whole |-> h * 3600 + m * 60 + c, millis |-> ms, fifths |-> f]
  /\ srt_time = ZeroTime
  /\ max_chars_per_line = DefaultMaxChars
  /\ max_lines_per_subtitle = DefaultMaxLines
  /\ text = <<>>
  /\ lines = <<>>
  /\ formatted_text = <<>>
  /\ segments = <<>>
  /\ srt_file = <<>>
  /\ pc = "call"
  /\ PipelineIdle

SecondsToSrtTime ==
  /\ pc = "call"
  /\ srt_time' = seconds_to_srt_time(seconds)
  /\ pc' = "done"
  /\ UNCHANGED <<max_chars_per_line, max_lines_per_subtitle, text, lines,
                 formatted_text, seconds, segments, srt_file>>
  /\ UNCHANGED pipeline

NextTime == SecondsToSrtTime

SpecTime == InitTime /\ [][NextTime]_vars

(***************************************************************************)
(* Reference notions for the claims about _seconds_to_srt_time: the decimal *)
(* argument cut to whole milliseconds, and a time as milliseconds.          *)
(***************************************************************************)
FloorMs(s) == s.whole * 1000 + s.millis

OrdinalMs(t) ==
  ((t.hours * 60 + t.minutes) * 60 + t.seconds) * 1000 + t.milliseconds

Decompose(ms) ==
  [hours |-> ms \div 3600000,
   minutes |-> (ms \div 60000) % 60,
   seconds |-> (ms \div 1000) % 60,
   milliseconds |-> ms % 1000]

\* C7: for every seconds value s >= 0 the time returned has hours >= 0,
\* minutes in 0..59, seconds in 0..59 and milliseconds in 0..999, and the
\* hours are not reduced: they are at least the whole hours of s.
C7_FieldRanges ==
  pc = "done" =>
    /\ srt_time.hours \in Nat
    /\ srt_time.hours >= seconds.whole \div 3600
    /\ srt_time.minutes \in 0..59
    /\ srt_time.seconds \in 0..59
    /\ srt_time.milliseconds \in 0..999

\* 25:59:59,999: every field at the top of its range, hours beyond a day.
C7_Witness ==
  /\ pc = "done"
  /\ srt_time = [hours |-> 25, minutes |-> 59, seconds |-> 59,
                 milliseconds |-> 999]

\* C8: for every s >= 0 the time returned is the exact h/m/s/ms
\* decomposition of floor(s * 1000) milliseconds: truncated, never rounded up.
C8_TimestampTruncation ==
  pc = "done" => srt_time = Decompose(FloorMs(seconds))

\* C9: the time returned, taken as milliseconds, differs from s truncated to
\* milliseconds by at most 1 ms.
C9_DecompositionExactness ==
  pc = "done" =>
    /\ OrdinalMs(srt_time) - FloorMs(seconds) <= 1
    /\ FloorMs(seconds) - OrdinalMs(srt_time) <= 1

\* A value 0.4 microseconds below a whole number of seconds, past one hour:
\* the result is the next second, 1 ms above the truncated value.
C9_Witness ==
  /\ pc = "done"
  /\ seconds.whole >= 3600
  /\ seconds.millis = 999
  /\ seconds.fifths = 4998
  /\ srt_time.milliseconds = 0
  /\ OrdinalMs(srt_time) = FloorMs(seconds) + 1

\* C10: for a seconds value that is a whole number of milliseconds the time
\* returned has exactly that value's fields; 90.5 gives 0:01:30,500 and
\* 3661.001 gives 1:01:01,001.
C10_WholeMilliseconds ==
  (pc = "done" /\ seconds.fifths = 0) =>
    /\ srt_time = Decompose(FloorMs(seconds))
    /\ seconds = [whole |-> 90, millis |-> 500, fifths |-> 0] =>
         srt_time = [hours |-> 0, minutes |-> 1, seconds |-> 30,
                     milliseconds |-> 500]
    /\ seconds = [whole |-> 3661, millis |-> 1, fifths |-> 0] =>
         srt_time = [hours |-> 1, minutes |-> 1, seconds |-> 1,
                     milliseconds |-> 1]

(***************************************************************************)
(* generate_srt.  A segment is a dict: a record with the keys start and end *)
(* and, unless it is missing, text.  The file saved to output_path is the   *)
(* list of the items appended to `subs`, in the order and with the index    *)
(* they were given: SubRipFile.save writes the items as they are.           *)
(***************************************************************************)
\* segment.get('text', ''), line 36.
get_text(segment) ==
  IF "text" \in DOMAIN segment THEN segment.text ELSE <<>>

\* pysrt.SubRipItem(index=, start=, end=, text=), lines 44-49.
SubRipItem(index, start, end, txt) ==
  [index |-> index, start |-> start, end |-> end, text |-> txt]

\* A loop body that also skips a segment that does not end after its start.
SrtBodyChecksTiming(subs, i, segment, W, N) ==
  IF strip(get_text(segment)) = <<>>
       \/ segment.end.whole * 1000 + segment.end.millis
            <= segment.start.whole * 1000 + segment.start.millis
  THEN subs
  ELSE Append(subs,
              SubRipItem(i + 1,
                         seconds_to_srt_time(segment.start),
                         seconds_to_srt_time(segment.end),
                         format_subtitle_text(strip(get_text(segment)), W, N)))

\* One pass of `for i, segment in enumerate(segments):`, lines 35-51, with i
\* counted from 0.
SrtBody(subs, i, segment, W, N) ==
  IF strip(get_text(segment)) = <<>>
  THEN subs
  ELSE Append(subs,
              SubRipItem(i + 1,
                         seconds_to_srt_time(segment.start),
                         seconds_to_srt_time(segment.end),
                         format_subtitle_text(strip(get_text(segment)), W, N)))

\* The words of a segment's text that its cue does not show.
Dropped(segment, W, N) ==
  LET words == split(strip(get_text(segment)))
      shown == WordsOf(format_lines(strip(get_text(segment)), W, N))
  IN SubSeq(words, Len(shown) + 1, Len(words))

\* A loop that puts the words a cue had no room for in front of the text of
\* the following segment.
RECURSIVE SrtLoopCarrying(_, _, _, _, _)
SrtLoopCarrying(segs, i, subs, W, N) ==
  IF i >= Len(segs) THEN subs
  ELSE LET segment == segs[i + 1]
           carried == IF i = 0 THEN <<>> ELSE Dropped(segs[i], W, N)
           fed == IF carried = <<>> THEN segment
                  ELSE [start |-> segment.start, end |-> segment.end,
                        text |-> join(" ", carried \o split(get_text(segment)))]
       IN SrtLoopCarrying(segs, i + 1, SrtBody(subs, i, fed, W, N), W, N)

RECURSIVE SrtLoop(_, _, _, _, _)
SrtLoop(segs, i, subs, W, N) ==
  IF i >= Len(segs) THEN subs
  ELSE SrtLoop(segs, i + 1, SrtBody(subs, i, segs[i + 1], W, N), W, N)

\* The items of the SubRipFile that generate_srt saves, lines 33-54.
generate_srt(segs, W, N) == SrtLoop(segs, 0, <<>>, W, N)

\* timedelta(seconds=s), line 102, keeps days, seconds and microseconds and
\* raises OverflowError when the days exceed 999999999.  A value of that size
\* is written with a field `gigadays`, counting 10^9 days.
DaysOf(s) ==
  (IF "gigadays" \in DOMAIN s THEN s.gigadays * 1000000000 ELSE 0)
    + s.whole \div 86400

timedelta_raises(s) == DaysOf(s) > 999999999

\* The loop converts the start and the end of every segment it does not skip,
\* lines 36-42; an exception leaves the loop and is raised again, lines 58-60.
generate_srt_raises(segs) ==
  \E i \in 1..Len(segs) :
    /\ strip(get_text(segs[i])) # <<>>
    /\ timedelta_raises(segs[i].start) \/ timedelta_raises(segs[i].end)

(***************************************************************************)
(* The specification of one call of generate_srt.                           *)
(***************************************************************************)
SegTexts ==
  {<<>>, <<" ">>, <<"a", " ">>, <<"b", " ", "a", " ", "b">>}

\* 0 s and 1.5 s: a segment of positive, of zero and of negative duration.
SegTimings ==
  LET t0 == ZeroSeconds
      t1 == [whole |-> 1, millis |-> 500, fifths |-> 0]
  IN {<<t0, t1>>, <<t1, t1>>, <<t1, t0>>}

Segments ==
  {[text |-> t, start |-> p[1], end |-> p[2]] : t \in SegTexts, p \in SegTimings}
    \cup {[start |-> p[1], end |-> p[2]] : p \in SegTimings}

InitSrt ==
  /\ \E n \in 0..MaxSegments : segments \in [1..n -> Segments]
  /\ srt_file = <<>>
  /\ max_chars_per_line \in {1, DefaultMaxChars}
  /\ max_lines_per_subtitle = DefaultMaxLines
  /\ text = <<>>
  /\ lines = <<>>
  /\ formatted_text = <<>>
  /\ seconds = ZeroSeconds
  /\ srt_time = ZeroTime
  /\ pc = "call"
  /\ PipelineIdle

GenerateSrt ==
  /\ pc = "call"
  /\ IF generate_srt_raises(segments)
     THEN /\ pc' = "raised"
          /\ result' = Raised("OverflowError")
          /\ srt_file' = srt_file
     ELSE /\ pc' = "done"
          /\ result' = result
          /\ srt_file' = generate_srt(segments, max_chars_per_line,
                                      max_lines_per_subtitle)
  /\ UNCHANGED <<max_chars_per_line, max_lines_per_subtitle, text, lines,
                 formatted_text, seconds, srt_time, segments>>
  /\ UNCHANGED <<environ, argv, faults, llm, fs, calls>>

NextSrt == GenerateSrt

SpecSrt == InitSrt /\ [][NextSrt]_vars

(***************************************************************************)
(* Reference notions for the claims about generate_srt.                     *)
(***************************************************************************)
\* A segment whose text holds a character that is not whitespace.
NonBlank(segment) ==
  /\ "text" \in DOMAIN segment
  /\ \E k \in 1..Len(segment.text) : segment.text[k] \notin Whitespace

\* The non-blank segments, in the order supplied.
Kept == SelectSeq(segments, NonBlank)

\* C5: the indices of the emitted cues are 1..k in order: a segment skipped
\* for its blank text does not consume an index.
C5_ContiguousIndices ==
  pc = "done" => \A k \in 1..Len(srt_file) : srt_file[k].index = k

\* C6: one cue for every segment whose trimmed text is non-empty and none for
\* the others, whatever the timing: the k-th cue has the start and the end of
\* the k-th non-blank segment, also when it does not end after its start.
C6_OneCuePerNonBlankSegment ==
  pc = "done" =>
    /\ Len(srt_file) = Len(Kept)
    /\ Len(srt_file) = Cardinality({i \in 1..Len(segments) : NonBlank(segments[i])})
    /\ \A k \in 1..Len(srt_file) :
         /\ srt_file[k].start = seconds_to_srt_time(Kept[k].start)
         /\ srt_file[k].end = seconds_to_srt_time(Kept[k].end)

\* A blank segment skipped, and a cue that ends before it starts.
C6_Witness ==
  /\ pc = "done"
  /\ Len(srt_file) >= 1
  /\ Len(srt_file) < Len(segments)
  /\ \E k \in 1..Len(srt_file) :
       OrdinalMs(srt_file[k].end) < OrdinalMs(srt_file[k].start)

\* C12: the cues come in the order of the segments, not of their start
\* times, and the k-th cue is made from the k-th non-blank segment alone: its
\* text is the wrapped trimmed text of that segment, its start and end are
\* the converted start and end of that segment, and its words are the first
\* words of that segment, none left over from the segment before.
C12_CueFromOwnSegment ==
  pc = "done" =>
    /\ Len(srt_file) = Len(Kept)
    /\ \A k \in 1..Len(srt_file) :
         LET own == strip(get_text(Kept[k]))
             shown == WordsOf(SplitOn(srt_file[k].text, "\n"))
         IN /\ srt_file[k].text
                 = format_subtitle_text(own, max_chars_per_line,
                                        max_lines_per_subtitle)
            /\ srt_file[k].start = seconds_to_srt_time(Kept[k].start)
            /\ srt_file[k].end = seconds_to_srt_time(Kept[k].end)
            /\ Len(shown) <= Len(split(own))
            /\ shown = SubSeq(split(own), 1, Len(shown))

\* A cue that starts later than the cue after it and shows fewer words than
\* its segment has.
C12_Witness ==
  /\ pc = "done"
  /\ Len(srt_file) >= 2
  /\ Len(srt_file) = Len(Kept)
  /\ OrdinalMs(srt_file[1].start) > OrdinalMs(srt_file[2].start)
  /\ Len(WordsOf(SplitOn(srt_file[1].text, "\n")))
       < Len(split(strip(get_text(Kept[1]))))

(***************************************************************************)
(* generate_srt over segments of any non-negative start and end: 0 s,       *)
(* 1.5 s, and 86,400,000,000,000 s, which is 10^9 days.                     *)
(***************************************************************************)
LongTimes ==
  {ZeroSeconds,
   [whole |-> 1, millis |-> 500, fifths |-> 0],
   [whole |-> 0, millis |-> 0, fifths |-> 0, gigadays |-> 1]}

AnySegments ==
  {[text |-> t, start |-> a, end |-> b] :
     t \in {<<" ">>, <<"b", " ", "a", " ", "b">>}, a \in LongTimes, b \in LongTimes}

InitAny ==
  /\ \E n \in 0..MaxSegments : segments \in [1..n -> AnySegments]
  /\ srt_file = <<>>
  /\ max_chars_per_line \in {1, DefaultMaxChars}
  /\ max_lines_per_subtitle = DefaultMaxLines
  /\ text = <<>>
  /\ lines = <<>>
  /\ formatted_text = <<>>
  /\ seconds = ZeroSeconds
  /\ srt_time = ZeroTime
  /\ pc = "call"
  /\ PipelineIdle

SpecAny == InitAny /\ [][NextSrt]_vars

\* C13: with non-negative starts and ends, string texts and positive limits,
\* generate_srt (its loop, the wrap and the conversions) raises no error.
C13_Totality ==
  /\ pc # "raised"
  /\ result.kind # "raise"

-----------------------------------------------------------------------------
\* Configuration.  __init__ fixes the two limits and takes no argument; they
\* are plain attributes, a caller changes them by assignment, and nothing
\* checks the values.

SubtitleGenerator_init ==
  /\ max_chars_per_line = DefaultMaxChars
  /\ max_lines_per_subtitle = DefaultMaxLines

ConfigTexts == {<<>>, Hi, QuickBrownFox, <<"a", " ", "b", " ", "a">>}

InitConfig ==
  /\ SubtitleGenerator_init
  /\ text \in ConfigTexts
  /\ lines = <<>>
  /\ formatted_text = <<>>
  /\ seconds = ZeroSeconds
  /\ srt_time = ZeroTime
  /\ segments = <<>>
  /\ srt_file = <<>>
  /\ pc = "new"
  /\ PipelineIdle

\* generator.max_chars_per_line = W; generator.max_lines_per_subtitle = N
SetLimits ==
  /\ pc = "new"
  /\ \E W \in -1 .. MaxChars \cup {10}, N \in -1 .. MaxLines :
       /\ max_chars_per_line' = W
       /\ max_lines_per_subtitle' = N
  /\ pc' = "call"
  /\ UNCHANGED <<text, lines, formatted_text, seconds, srt_time, segments,
                 srt_file>>
  /\ UNCHANGED pipeline

NextConfig == SetLimits \/ FormatSubtitleText

SpecConfig == InitConfig /\ [][NextConfig]_vars

\* C11: under an invalid configuration (max_chars_per_line <= 0 or
\* max_lines_per_subtitle <= 0) the formatter reports an error, at the
\* latest when it is called, and produces no output: it never returns.
C11_InvalidConfigurationRejected ==
  (max_chars_per_line <= 0 \/ max_lines_per_subtitle <= 0)
    => /\ pc # "done"
       /\ lines = <<>>
       /\ formatted_text = <<>>
-----------------------------------------------------------------------------
(***************************************************************************)
(* AudioExtractor.extract_audio, src/core/audio_extractor.py.               *)
(*                                                                          *)
(* A path is its base name and its extension, which is what os.path.splitext*)
(* makes of it; the extension is a string of characters, so that lower()    *)
(* has something to do.  `fs` maps the paths that exist to their content.   *)
(***************************************************************************)
Path(base, ext) == [base |-> base, ext |-> ext]

\* output_path = None
NoPath == Path("", <<>>)

mp4 == <<".", "m", "p", "4">>
MP4 == <<".", "M", "P", "4">>
avi == <<".", "a", "v", "i">>
Avi == <<".", "A", "v", "i">>
mov == <<".", "m", "o", "v">>
mkv == <<".", "m", "k", "v">>
wmv == <<".", "w", "m", "v">>
flv == <<".", "f", "l", "v">>
wav == <<".", "w", "a", "v">>
doc == <<".", "d", "o", "c">>

\* self.supported_formats, line 17.
supported_formats == {mp4, avi, mov, mkv, wmv, flv}

\* str.lower() over the capitals that occur.
lower(s) ==
  [i \in 1..Len(s) |->
     CASE s[i] = "A" -> "a"
       [] s[i] = "I" -> "i"
       [] s[i] = "M" -> "m"
       [] s[i] = "O" -> "o"
       [] s[i] = "P" -> "p"
       [] OTHER -> s[i]]

\* os.path.exists(path)
exists(files, path) == path \in DOMAIN files

\* The file at `path` created or replaced.
write(files, path, content) ==
  [q \in DOMAIN files \cup {path} |-> IF q = path THEN content ELSE files[q]]

\* What a call leaves behind: what it returned or raised, the files, and the
\* calls of MoviePy it made.
Outcome(res, files, made) == [result |-> res, fs |-> files, calls |-> made]

\* An extractor that looks at the extension before it looks for the file.
extract_audio_format_first(video_path, output_path, files, failing, partial) ==
  IF lower(video_path.ext) \notin supported_formats
  THEN Outcome(Raised("ValueError"), files, <<>>)
  ELSE IF ~exists(files, video_path)
  THEN Outcome(Raised("FileNotFoundError"), files, <<>>)
  ELSE Outcome(Returned(Path(video_path.base, wav)),
               write(files, Path(video_path.base, wav), "audio"),
               <<"VideoFileClip", "write_audiofile">>)

\* extract_audio, lines 19-65.  `failing` holds the MoviePy calls that raise;
\* a failed write_audiofile may leave a partial file (`partial`).
extract_audio(video_path, output_path, files, failing, partial) ==
  IF ~exists(files, video_path)
  THEN Outcome(Raised("FileNotFoundError"), files, <<>>)
  ELSE IF lower(video_path.ext) \notin supported_formats
  THEN Outcome(Raised("ValueError"), files, <<>>)
  ELSE LET out == IF output_path = NoPath
                  THEN Path(video_path.base, wav)
                  ELSE output_path
       IN IF "VideoFileClip" \in failing
          THEN Outcome(Raised("Exception"), files, <<"VideoFileClip">>)
          ELSE IF "write_audiofile" \in failing
          THEN Outcome(Raised("Exception"),
                       IF partial THEN write(files, out, "partial") ELSE files,
                       <<"VideoFileClip", "write_audiofile">>)
          ELSE Outcome(Returned(out), write(files, out, "audio"),
                       <<"VideoFileClip", "write_audiofile">>)

VideoExts == {mp4, MP4, avi, Avi, flv, doc, wav, <<>>}

\* The generator untouched.
GeneratorIdle ==
  /\ max_chars_per_line = DefaultMaxChars
  /\ max_lines_per_subtitle = DefaultMaxLines
  /\ text = <<>>
  /\ lines = <<>>
  /\ formatted_text = <<>>
  /\ seconds = ZeroSeconds
  /\ srt_time = ZeroTime
  /\ segments = <<>>
  /\ srt_file = <<>>

generator == <<max_chars_per_line, max_lines_per_subtitle, text, lines,
               formatted_text, seconds, srt_time, segments, srt_file>>

InitAudio ==
  /\ GeneratorIdle
  /\ \E ext \in VideoExts, out \in {NoPath, Path("out", wav)} :
       argv = [video_path |-> Path("video", ext), output_path |-> out]
  /\ \E present \in SUBSET {argv.video_path, Path("video", wav)} :
       fs = [q \in present |-> IF q = argv.video_path THEN "video" ELSE "old"]
  /\ faults \in SUBSET {"VideoFileClip", "write_audiofile"}
  /\ environ = <<>>
  /\ llm = <<>>
  /\ calls = <<>>
  /\ result = NoResult
  /\ pc = "call"

ExtractAudio ==
  /\ pc = "call"
  /\ \E partial \in BOOLEAN :
       LET o == extract_audio(argv.video_path, argv.output_path, fs, faults,
                              partial)
       IN /\ result' = o.result
          /\ fs' = o.fs
          /\ calls' = o.calls
          /\ pc' = IF o.result.kind = "raise" THEN "raised" ELSE "done"
  /\ UNCHANGED <<environ, argv, faults, llm>>
  /\ UNCHANGED generator

NextAudio == ExtractAudio

SpecAudio == InitAudio /\ [][NextAudio]_vars

\* C14: extract_audio on a path that does not exist raises FileNotFoundError
\* whatever the extension, and on an existing file whose extension is not
\* among the supported formats raises ValueError; either way it makes no
\* MoviePy call and leaves the files as they were.
C14_ChecksBeforeExtraction ==
  [][pc = "call" =>
       /\ ~exists(fs, argv.video_path)
            => /\ pc' = "raised"
               /\ result'.kind = "raise"
               /\ result'.exc = "FileNotFoundError"
               /\ calls' = <<>>
               /\ fs' = fs
       /\ (exists(fs, argv.video_path)
             /\ lower(argv.video_path.ext) \notin supported_formats)
            => /\ pc' = "raised"
               /\ result'.kind = "raise"
               /\ result'.exc = "ValueError"
               /\ calls' = <<>>
               /\ fs' = fs]_vars

\* A missing file with an unsupported extension was refused as missing.
C14_Witness ==
  /\ pc = "raised"
  /\ ~exists(fs, argv.video_path)
  /\ lower(argv.video_path.ext) \notin supported_formats
  /\ result.exc = "FileNotFoundError"
-----------------------------------------------------------------------------
(***************************************************************************)
(* LLMCorrector.__init__, src/core/llm_corrector.py.                        *)
(*                                                                          *)
(* `environ` gives every variable its value, None when it is not set.  A    *)
(* provider name is a string of characters, for lower().                    *)
(***************************************************************************)
None == "<None>"

\* `not v` for a string or None.
Falsy(v) == v \in {None, ""}

\* os.getenv(name)
getenv(env, name) == env[name]

EnvNames == {"OPENAI_API_KEY", "GEMINI_API_KEY", "LLM_API_KEY"}

openai == <<"o", "p", "e", "n", "a", "i">>
OpenAI == <<"O", "p", "e", "n", "A", "I">>
gemini == <<"g", "e", "m", "i", "n", "i">>
claude == <<"c", "l", "a", "u", "d", "e">>

\* _get_api_key, lines 39-46, for a supported provider.
get_api_key(provider, env) ==
  IF provider = openai THEN getenv(env, "OPENAI_API_KEY")
  ELSE getenv(env, "GEMINI_API_KEY")

\* LLMCorrector(provider, api_key), lines 26-57: the corrector, or ValueError
\* for an unsupported provider (line 46) or a missing key (line 51).  The
\* argument api_key is not read.
LLMCorrector(provider, api_key, env) ==
  IF lower(provider) \notin {openai, gemini}
  THEN Raised("ValueError")
  ELSE IF Falsy(get_api_key(lower(provider), env))
  THEN Raised("ValueError")
  ELSE Returned([provider |-> lower(provider),
                 api_key |-> get_api_key(lower(provider), env)])

\* The environments: each variable not set, empty, or holding its own key.
Environments ==
  LET key == [n \in EnvNames |->
                CASE n = "OPENAI_API_KEY" -> "sk-openai"
                  [] n = "GEMINI_API_KEY" -> "sk-gemini"
                  [] n = "LLM_API_KEY" -> "sk-llm"]
  IN {env \in [EnvNames -> {None, "", "sk-openai", "sk-gemini", "sk-llm"}] :
        \A n \in EnvNames : env[n] \in {None, "", key[n]}}

InitCorrector ==
  /\ GeneratorIdle
  /\ environ \in Environments
  /\ \E provider \in {openai, OpenAI, gemini, claude},
        api_key \in {None, "", "sk-arg"} :
       argv = [provider |-> provider, api_key |-> api_key]
  /\ faults = {}
  /\ llm = <<>>
  /\ fs = <<>>
  /\ calls = <<>>
  /\ result = NoResult
  /\ pc = "call"

NewLLMCorrector ==
  /\ pc = "call"
  /\ result' = LLMCorrector(argv.provider, argv.api_key, environ)
  /\ pc' = IF result'.kind = "raise" THEN "raised" ELSE "done"
  /\ UNCHANGED <<environ, argv, faults, llm, fs, calls>>
  /\ UNCHANGED generator

NextCorrector == NewLLMCorrector

SpecCorrector == InitCorrector /\ [][NextCorrector]_vars

\* C19: a key passed to the constructor is the key the corrector uses, and
\* the provider's environment variable is read only when none is passed.
C19_ExplicitKeyPreferred ==
  (pc # "call" /\ lower(argv.provider) \in {openai, gemini}) =>
    IF ~Falsy(argv.api_key)
    THEN /\ pc = "done"
         /\ result.value.api_key = argv.api_key
    ELSE \/ /\ pc = "done"
            /\ result.value.api_key = get_api_key(lower(argv.provider), environ)
         \/ /\ pc = "raised"
            /\ Falsy(get_api_key(lower(argv.provider), environ))
-----------------------------------------------------------------------------
(***************************************************************************)
(* LLMCorrector.correct_text and correct_segments.                          *)
(*                                                                          *)
(* `llm` holds the reply of the API to each call in turn: a text, or no     *)
(* reply when the call raises.  The loop state is the argument list, which  *)
(* the code could change through its elements, and the list being built.    *)
(***************************************************************************)
Reply(txt) == [ok |-> TRUE, text |-> txt]
NoReply == [ok |-> FALSE, text |-> <<>>]

CorrectionResult(original_text, corrected_text, confidence, corrections_made) ==
  [original_text |-> original_text, corrected_text |-> corrected_text,
   confidence |-> confidence, corrections_made |-> corrections_made]

\* _parse_correction_result, lines 166-179.
parse_correction_result(original, corrected) ==
  CorrectionResult(original, corrected,
                   IF original # corrected THEN "0.8" ELSE "1.0",
                   IF original # corrected
                   THEN << <<original, corrected>> >> ELSE <<>>)

\* correct_text, lines 59-90: the reply stripped (lines 159, 164) and parsed,
\* or the text as it was when the call raised.
correct_text(provider, txt, reply) ==
  IF provider \in {openai, gemini} /\ reply.ok
  THEN parse_correction_result(txt, strip(reply.text))
  ELSE CorrectionResult(txt, txt, "0.0", <<>>)

\* segment.copy() with the three keys set, lines 208-211.
corrected_copy(segment, correction_result) ==
  [k \in DOMAIN segment \cup {"text", "original_text", "correction_confidence"} |->
     CASE k = "text" -> correction_result.corrected_text
       [] k = "original_text" -> correction_result.original_text
       [] k = "correction_confidence" -> correction_result.confidence
       [] OTHER -> segment[k]]

\* A loop body that sets the keys on the segment itself.
CorrectBodyInPlace(st, i, provider, replies) ==
  LET segment == st.input[i]
      correction_result == correct_text(provider, get_text(segment), replies[i])
      corrected_segment == corrected_copy(segment, correction_result)
  IN [input |-> [st.input EXCEPT ![i] = corrected_segment],
      output |-> Append(st.output, corrected_segment)]

\* One pass of `for i, segment in enumerate(segments):`, lines 194-214, with
\* i counted from 1.
CorrectBody(st, i, provider, replies) ==
  LET segment == st.input[i]
      correction_result == correct_text(provider, get_text(segment), replies[i])
      corrected_segment == corrected_copy(segment, correction_result)
  IN [input |-> st.input,
      output |-> Append(st.output, corrected_segment)]

RECURSIVE CorrectLoop(_, _, _, _)
CorrectLoop(st, i, provider, replies) ==
  IF i > Len(st.input) THEN st
  ELSE CorrectLoop(CorrectBody(st, i, provider, replies), i + 1, provider,
                   replies)

\* correct_segments, lines 181-216: the argument list afterwards and the
\* list returned.
correct_segments(segs, provider, replies) ==
  CorrectLoop([input |-> segs, output |-> <<>>], 1, provider, replies)

\* Segments as extract_segments makes them, and one without a text.
WhisperSegments ==
  LET t0 == ZeroSeconds
      t1 == [whole |-> 1, millis |-> 500, fifths |-> 0]
  IN {[id |-> i, start |-> t0, end |-> t1, text |-> t] :
        i \in {0, 1}, t \in {<<"a">>, <<"b", " ", "a">>}}
       \cup {[id |-> 1, start |-> t1, end |-> t0]}

Replies == {NoReply, Reply(<<"a">>), Reply(<<" ", "b", " ">>)}

InitCorrect ==
  /\ max_chars_per_line = DefaultMaxChars
  /\ max_lines_per_subtitle = DefaultMaxLines
  /\ text = <<>>
  /\ lines = <<>>
  /\ formatted_text = <<>>
  /\ seconds = ZeroSeconds
  /\ srt_time = ZeroTime
  /\ srt_file = <<>>
  /\ \E n \in 0..MaxSegments :
       /\ segments \in [1..n -> WhisperSegments]
       /\ llm \in [1..n -> Replies]
  /\ argv = [provider |-> openai]
  /\ environ = <<>>
  /\ faults = {}
  /\ fs = <<>>
  /\ calls = <<>>
  /\ result = NoResult
  /\ pc = "call"

CorrectSegments ==
  /\ pc = "call"
  /\ LET st == correct_segments(segments, argv.provider, llm)
     IN /\ segments' = st.input
        /\ result' = Returned(st.output)
  /\ pc' = "done"
  /\ UNCHANGED <<max_chars_per_line, max_lines_per_subtitle, text, lines,
                 formatted_text, seconds, srt_time, srt_file>>
  /\ UNCHANGED <<environ, argv, faults, llm, fs, calls>>

NextCorrect == CorrectSegments

SpecCorrect == InitCorrect /\ [][NextCorrect]_vars

\* C20: whatever calls succeed and fail, correct_segments returns as many
\* segments as it was given, in their order, each with the start, the end
\* and every other key of its segment but the text unchanged; it leaves the
\* segments it was given as they were; and a segment whose call failed has
\* the text it had.  (The copies carry two more keys, original_text and
\* correction_confidence.)
C20_TextOnly ==
  [][pc = "call" =>
       /\ pc' = "done"
       /\ segments' = segments
       /\ Len(result'.value) = Len(segments)
       /\ \A i \in 1..Len(segments) :
            /\ result'.value[i].start = segments[i].start
            /\ result'.value[i].end = segments[i].end
            /\ \A k \in DOMAIN segments[i] \ {"text"} :
                 result'.value[i][k] = segments[i][k]
            /\ DOMAIN result'.value[i] \ DOMAIN segments[i]
                 \subseteq {"text", "original_text", "correction_confidence"}
            /\ ~llm[i].ok => result'.value[i].text = get_text(segments[i])]_vars

\* A failed call followed by one that changed the text, on segments whose
\* ids are not in ascending order.
C20_Witness ==
  /\ pc = "done"
  /\ Len(segments) >= 2
  /\ ~llm[1].ok
  /\ llm[2].ok
  /\ segments[1].id > segments[2].id
  /\ result.value[1].text = get_text(segments[1])
  /\ result.value[2].text # get_text(segments[2])
-----------------------------------------------------------------------------
(***************************************************************************)
(* VideoProcessor.process_video, src/core/video_processor.py.               *)
(*                                                                          *)
(* `segments` holds what Whisper answers (result['segments']), `llm` the    *)
(* replies of the LLM API, `faults` the calls into the surroundings that    *)
(* raise: "makedirs", "VideoFileClip", "write_audiofile", "transcribe",     *)
(* "save_transcription", "write_pre_llm_txt", "write_post_llm_txt",         *)
(* "save_srt" and "open_srt".  `calls` lists the stages entered.            *)
(***************************************************************************)
json == <<".", "j", "s", "o", "n">>
srt == <<".", "s", "r", "t">>
plain == <<".", "t", "x", "t">>

\* WhisperTranscriber.transcribe_audio, lines 37-70.
transcribe_audio(files, audio_path, failing, answer) ==
  IF ~exists(files, audio_path) THEN Raised("FileNotFoundError")
  ELSE IF "transcribe" \in failing THEN Raised("Exception")
  ELSE Returned(answer)

\* WhisperTranscriber.extract_segments, lines 72-93.
extract_segments(answer) ==
  [i \in 1..Len(answer) |->
     [start |-> answer[i].start,
      end |-> answer[i].end,
      text |-> strip(get_text(answer[i])),
      id |-> IF "id" \in DOMAIN answer[i] THEN answer[i].id ELSE 0]]

\* A save that logs its failure and returns.
save_transcription_logging(files, path, answer, failing, partial) ==
  IF "save_transcription" \in failing
  THEN Outcome(Returned(path), files, <<>>)
  ELSE Outcome(Returned(path), write(files, path, answer), <<>>)

\* WhisperTranscriber.save_transcription, lines 95-109: the failure is
\* logged and raised again; the file may have been opened by then.
save_transcription(files, path, answer, failing, partial) ==
  IF "save_transcription" \in failing
  THEN Outcome(Raised("Exception"),
               IF partial THEN write(files, path, <<>>) ELSE files, <<>>)
  ELSE Outcome(Returned(path), write(files, path, answer), <<>>)

\* The lines of a text file: the stripped texts that are not empty.
segment_lines(segs) ==
  SelectSeq([i \in 1..Len(segs) |-> strip(get_text(segs[i]))],
            LAMBDA t : t # <<>>)

\* _write_segments_txt, lines 40-55: a failure is logged as a warning and the
\* path is returned all the same.
write_segments_txt(files, segs, path, failed) ==
  IF failed THEN files
  ELSE write(files, path, join("\n", segment_lines(segs)))

\* The keys of result_paths at the return, lines 83-125.
result_paths(video_path) ==
  [video |-> video_path,
   output_dir |-> "",
   audio |-> Path(video_path.base, wav),
   transcription |-> Path(video_path.base \o "_transcription", json),
   pre_llm_txt |-> Path(video_path.base \o "_pre_llm", plain),
   post_llm_txt |-> Path(video_path.base \o "_post_llm", plain),
   srt |-> Path(video_path.base, srt)]

\* What process_video leaves behind: Outcome and the cues saved.
Run(res, files, made, cues) ==
  [result |-> res, fs |-> files, calls |-> made, srt_file |-> cues]

\* A pipeline that corrects the segments as soon as it has them: the text
\* file meant for the uncorrected text is written after the corrector ran.
process_video_correcting_first(video_path, enable_correction, files, failing, partial, answer, provider, replies, W, N) ==
  LET paths == result_paths(video_path)
      a == extract_audio(video_path, paths.audio, files, failing, partial)
      c1 == <<"extract_audio">>
      t == transcribe_audio(a.fs, paths.audio, failing, answer)
      c2 == c1 \o <<"transcribe_audio">>
      segs == extract_segments(answer)
      s == save_transcription(a.fs, paths.transcription, answer, failing,
                              partial)
      c3 == c2 \o <<"extract_segments", "save_transcription">>
      corrected == IF enable_correction
                   THEN correct_segments(segs, provider, replies).output
                   ELSE segs
      c4 == c3 \o (IF enable_correction THEN <<"correct_segments">> ELSE <<>>)
      f5 == write_segments_txt(s.fs, corrected, paths.pre_llm_txt,
                               "write_pre_llm_txt" \in failing)
      c5 == c4 \o <<"write_pre_llm_txt">>
      f6 == write_segments_txt(f5, corrected, paths.post_llm_txt,
                               "write_post_llm_txt" \in failing)
      c6 == c5 \o <<"write_post_llm_txt">>
      c7 == c6 \o <<"generate_srt">>
      cues == generate_srt(corrected, W, N)
      c8 == c7 \o <<"preview_subtitles", "validate_srt">>
  IN IF ~exists(files, video_path)
     THEN Run(Raised("FileNotFoundError"), files, <<>>, <<>>)
     ELSE IF "makedirs" \in failing
     THEN Run(Raised("OSError"), files, <<>>, <<>>)
     ELSE IF a.result.kind = "raise"
     THEN Run(a.result, a.fs, c1, <<>>)
     ELSE IF t.kind = "raise"
     THEN Run(t, a.fs, c2, <<>>)
     ELSE IF s.result.kind = "raise"
     THEN Run(s.result, s.fs, c3, <<>>)
     ELSE IF generate_srt_raises(corrected)
     THEN Run(Raised("OverflowError"), f6, c7, <<>>)
     ELSE IF "save_srt" \in failing
     THEN Run(Raised("Exception"), f6, c7, <<>>)
     ELSE Run(Returned(paths), write(f6, paths.srt, cues), c8, cues)

\* process_video, lines 57-140.  An exception inside the try block is logged
\* and raised again (138-140), so the stages after it are not entered.
process_video(video_path, enable_correction, files, failing, partial, answer, provider, replies, W, N) ==
  LET paths == result_paths(video_path)
      \* Step 1, lines 91-93
      a == extract_audio(video_path, paths.audio, files, failing, partial)
      c1 == <<"extract_audio">>
      \* Step 2, lines 97-102
      t == transcribe_audio(a.fs, paths.audio, failing, answer)
      c2 == c1 \o <<"transcribe_audio">>
      segs == extract_segments(answer)
      s == save_transcription(a.fs, paths.transcription, answer, failing,
                              partial)
      c3 == c2 \o <<"extract_segments", "save_transcription">>
      \* lines 105-107
      f4 == write_segments_txt(s.fs, segs, paths.pre_llm_txt,
                               "write_pre_llm_txt" \in failing)
      c4 == c3 \o <<"write_pre_llm_txt">>
      \* Step 3, lines 110-114
      corrected == IF enable_correction
                   THEN correct_segments(segs, provider, replies).output
                   ELSE segs
      c5 == c4 \o (IF enable_correction THEN <<"correct_segments">> ELSE <<>>)
      \* lines 117-119
      f6 == write_segments_txt(f4, corrected, paths.post_llm_txt,
                               "write_post_llm_txt" \in failing)
      c6 == c5 \o <<"write_post_llm_txt">>
      \* Step 4, lines 123-134
      c7 == c6 \o <<"generate_srt">>
      cues == generate_srt(corrected, W, N)
      c8 == c7 \o <<"preview_subtitles", "validate_srt">>
  IN IF ~exists(files, video_path)
     THEN Run(Raised("FileNotFoundError"), files, <<>>, <<>>)
     ELSE IF "makedirs" \in failing
     THEN Run(Raised("OSError"), files, <<>>, <<>>)
     ELSE IF a.result.kind = "raise"
     THEN Run(a.result, a.fs, c1, <<>>)
     ELSE IF t.kind = "raise"
     THEN Run(t, a.fs, c2, <<>>)
     ELSE IF s.result.kind = "raise"
     THEN Run(s.result, s.fs, c3, <<>>)
     ELSE IF generate_srt_raises(corrected)
     THEN Run(Raised("OverflowError"), f6, c7, <<>>)
     ELSE IF "save_srt" \in failing
     THEN Run(Raised("Exception"), f6, c7, <<>>)
     ELSE Run(Returned(paths), write(f6, paths.srt, cues), c8, cues)

\* What Whisper answers: texts as it gives them, with blanks around.
WhisperAnswers ==
  LET t0 == ZeroSeconds
      t1 == [whole |-> 1, millis |-> 500, fifths |-> 0]
      s1 == [id |-> 0, start |-> t0, end |-> t1, text |-> <<" ", "a">>]
      s2 == [id |-> 1, start |-> t1, end |-> t1, text |-> <<" ", "b", " ", "a">>]
  IN {<<>>, <<s1>>, <<s1, s2>>}

FaultNames ==
  {"makedirs", "VideoFileClip", "write_audiofile", "transcribe",
   "save_transcription", "write_pre_llm_txt", "write_post_llm_txt",
   "save_srt", "open_srt"}

InitProcess ==
  /\ max_chars_per_line = DefaultMaxChars
  /\ max_lines_per_subtitle = DefaultMaxLines
  /\ text = <<>>
  /\ lines = <<>>
  /\ formatted_text = <<>>
  /\ seconds = ZeroSeconds
  /\ srt_time = ZeroTime
  /\ srt_file = <<>>
  /\ segments \in WhisperAnswers
  /\ llm \in [1..Len(segments) -> Replies]
  /\ \E ext \in {mp4, doc}, enable_correction \in BOOLEAN :
       argv = [video_path |-> Path("video", ext),
               enable_correction |-> enable_correction,
               provider |-> openai]
  /\ \E present \in SUBSET {argv.video_path} : fs = [q \in present |-> "video"]
  /\ faults \in SUBSET FaultNames
  /\ environ = <<>>
  /\ calls = <<>>
  /\ result = NoResult
  /\ pc = "call"

ProcessVideo ==
  /\ pc = "call"
  /\ \E partial \in BOOLEAN :
       LET run == process_video(argv.video_path, argv.enable_correction, fs,
                                faults, partial, segments, argv.provider, llm,
                                max_chars_per_line, max_lines_per_subtitle)
       IN /\ result' = run.result
          /\ fs' = run.fs
          /\ calls' = run.calls
          /\ srt_file' = run.srt_file
          /\ pc' = IF run.result.kind = "raise" THEN "raised" ELSE "done"
  /\ UNCHANGED <<max_chars_per_line, max_lines_per_subtitle, text, lines,
                 formatted_text, seconds, srt_time, segments>>
  /\ UNCHANGED <<environ, argv, faults, llm>>

NextProcess == ProcessVideo

SpecProcess == InitProcess /\ [][NextProcess]_vars

\* The stage was entered during the run.
Entered(stage) == \E i \in 1..Len(calls) : calls[i] = stage

\* The stage was entered and its collaborator failed in it.
Failed(stage) ==
  /\ Entered(stage)
  /\ CASE stage = "extract_audio" ->
            \/ lower(argv.video_path.ext) \notin supported_formats
            \/ faults \cap {"VideoFileClip", "write_audiofile"} # {}
       [] stage = "transcribe_audio" -> "transcribe" \in faults
       [] stage = "save_transcription" -> "save_transcription" \in faults
       [] stage = "correct_segments" -> \E i \in 1..Len(llm) : ~llm[i].ok
       [] stage = "generate_srt" -> "save_srt" \in faults
       [] OTHER -> stage \in faults

\* The run stopped in the stage: it raised, and no later stage was entered.
AbortedIn(stage) ==
  /\ pc = "raised"
  /\ result.kind = "raise"
  /\ calls # <<>>
  /\ calls[Len(calls)] = stage
  /\ srt_file = <<>>

RaisingStages ==
  {"extract_audio", "transcribe_audio", "save_transcription", "generate_srt"}

SwallowingStages ==
  {"write_pre_llm_txt", "correct_segments", "write_post_llm_txt"}

\* C17, as claimed: the failure of any collaborator (audio extraction,
\* transcription, an API call of the text correction, the writing of a text
\* file, the saving of the SRT file) aborts the run: process_video raises, no
\* later stage is entered and no result paths are returned.
C17_AnyFailureAborts ==
  pc # "call" =>
    \A stage \in RaisingStages \cup SwallowingStages :
      Failed(stage) => AbortedIn(stage)

\* C17, amended: the failure of audio extraction, of transcription, of
\* saving the transcription or of saving the SRT file aborts the run in that
\* stage; a failed API call of the text correction and a failed write of a
\* text file do not: if no other stage fails, the run goes on to the end and
\* returns the result paths.
C17_RaisedFailureAborts ==
  (pc # "call" /\ exists(fs, argv.video_path) /\ "makedirs" \notin faults) =>
    /\ \A stage \in RaisingStages : Failed(stage) => AbortedIn(stage)
    /\ (\A stage \in RaisingStages : ~Failed(stage)) =>
         /\ pc = "done"
         /\ result.kind = "return"
         /\ Entered("validate_srt")
         /\ exists(fs, result.value.srt)

\* An API call and the writing of both text files failed, the run went on,
\* and the saving of the SRT file stopped it.
C17_Witness ==
  /\ pc = "raised"
  /\ Failed("write_pre_llm_txt")
  /\ Failed("correct_segments")
  /\ Failed("write_post_llm_txt")
  /\ Failed("generate_srt")
  /\ AbortedIn("generate_srt")
\* Where the stage stands among the stages entered.
Position(stage) == CHOOSE i \in 1..Len(calls) : calls[i] = stage

\* The segments as transcribed, and as they are with each text replaced by
\* the stripped reply of the API where there was one.
Transcribed == extract_segments(segments)

Expected ==
  [i \in 1..Len(Transcribed) |->
     [Transcribed[i] EXCEPT
        !.text = IF llm[i].ok THEN strip(llm[i].text) ELSE @]]

\* C21: without correction the corrector is never entered, the text file
\* written after the correction step has the content of the one written
\* before it, and the SRT is made from the segments as transcribed.  With
\* correction the corrector is entered after the first text file is written
\* and before the second text file and the SRT are: the first file holds the
\* transcribed texts, the second the corrected ones, and the SRT is made from
\* the corrected segments.  (A text file counts when its write did not fail.)
C21_CorrectionPlacement ==
  LET pre == result_paths(argv.video_path).pre_llm_txt
      post == result_paths(argv.video_path).post_llm_txt
      pre_written == "write_pre_llm_txt" \notin faults
      post_written == "write_post_llm_txt" \notin faults
      W == max_chars_per_line
      N == max_lines_per_subtitle
  IN /\ (pc # "call" /\ ~argv.enable_correction) => ~Entered("correct_segments")
     /\ (pc = "done" /\ ~argv.enable_correction) =>
          /\ pre_written => fs[pre] = join("\n", segment_lines(Transcribed))
          /\ (pre_written /\ post_written) => fs[post] = fs[pre]
          /\ srt_file = generate_srt(Transcribed, W, N)
          /\ fs[result.value.srt] = srt_file
     /\ (pc # "call" /\ Entered("correct_segments")) =>
          /\ argv.enable_correction
          /\ Entered("write_pre_llm_txt")
          /\ Position("write_pre_llm_txt") < Position("correct_segments")
     /\ (pc = "done" /\ argv.enable_correction) =>
          /\ Entered("correct_segments")
          /\ Position("write_pre_llm_txt") < Position("correct_segments")
          /\ Position("correct_segments") < Position("write_post_llm_txt")
          /\ Position("correct_segments") < Position("generate_srt")
          /\ pre_written => fs[pre] = join("\n", segment_lines(Transcribed))
          /\ post_written => fs[post] = join("\n", segment_lines(Expected))
          /\ srt_file = generate_srt(Expected, W, N)
          /\ fs[result.value.srt] = srt_file

\* A run with correction in which a reply changed a text: the two text files
\* differ and the SRT has the corrected text.
C21_Witness ==
  /\ pc = "done"
  /\ argv.enable_correction
  /\ faults = {}
  /\ Len(segments) >= 2
  /\ fs[result_paths(argv.video_path).pre_llm_txt]
       # fs[result_paths(argv.video_path).post_llm_txt]
  /\ srt_file # generate_srt(Transcribed, max_chars_per_line,
                             max_lines_per_subtitle)

-----------------------------------------------------------------------------
(***************************************************************************)
(* main, src/main.py, with what it calls: AppConfig.load_from_env,          *)
(* VideoProcessor.__init__, get_video_info, process_video and               *)
(* cleanup_temp_files.                                                      *)
(*                                                                          *)
(* More faults: "load_model" (whisper.load_model raises), "remove_audio"    *)
(* and "remove_transcription" (os.remove raises).  sys.exit(1) is the       *)
(* exception SystemExit.                                                    *)
(***************************************************************************)
\* a or b
Or(a, b) == IF Falsy(a) THEN b ELSE a

\* AppConfig().load_from_env(), settings.py lines 101-110: config.llm.api_key.
\* main calls it before it applies --provider (main.py lines 109-115), so the
\* provider is still LLMConfig's default.
load_from_env(provider, env) ==
  IF provider = openai
  THEN Or(getenv(env, "OPENAI_API_KEY"), getenv(env, "LLM_API_KEY"))
  ELSE IF provider = gemini
  THEN Or(getenv(env, "GEMINI_API_KEY"), getenv(env, "LLM_API_KEY"))
  ELSE getenv(env, "LLM_API_KEY")

\* VideoProcessor(whisper_model, llm_provider, llm_api_key), lines 21-38: the
\* transcriber loads its model, then the corrector is built, whether or not
\* correction is wanted.
VideoProcessor(llm_provider, llm_api_key, env, failing) ==
  IF "load_model" \in failing THEN Raised("Exception")
  ELSE LLMCorrector(llm_provider, llm_api_key, env)

\* AudioExtractor.get_video_info, audio_extractor.py lines 67-93.
get_video_info(files, video_path, failing) ==
  IF ~exists(files, video_path) THEN Raised("FileNotFoundError")
  ELSE IF "VideoFileClip" \in failing THEN Raised("Exception")
  ELSE Returned("info")

\* os.remove(path)
remove(files, path) == [q \in DOMAIN files \ {path} |-> files[q]]

\* A removal that lets the failure of os.remove out.
remove_if_exists_unguarded(files, path, name, failing) ==
  IF ~exists(files, path) THEN Outcome(Returned(None), files, <<>>)
  ELSE IF name \in failing THEN Outcome(Raised("OSError"), files, <<name>>)
  ELSE Outcome(Returned(None), remove(files, path), <<name>>)

\* One pass of the loop of cleanup_temp_files, lines 162-168: os.remove is
\* called on a file that exists (the call is listed under `name`); when it
\* raises, a warning is logged and the loop goes on.
remove_if_exists(files, path, name, failing) ==
  IF ~exists(files, path) THEN Outcome(Returned(None), files, <<>>)
  ELSE IF name \in failing THEN Outcome(Returned(None), files, <<name>>)
  ELSE Outcome(Returned(None), remove(files, path), <<name>>)

\* cleanup_temp_files, video_processor.py lines 146-168: the audio file,
\* unless it is kept, then the transcription file.  An exception that left a
\* pass would end the loop.
cleanup_temp_files(paths, keep_audio, files, failing) ==
  LET o1 == IF ~keep_audio /\ "audio" \in DOMAIN paths
            THEN remove_if_exists(files, paths.audio, "remove_audio", failing)
            ELSE Outcome(Returned(None), files, <<>>)
      o2 == IF "transcription" \in DOMAIN paths
            THEN remove_if_exists(o1.fs, paths.transcription,
                                  "remove_transcription", failing)
            ELSE Outcome(Returned(None), o1.fs, <<>>)
  IN IF o1.result.kind = "raise" THEN o1
     ELSE Outcome(o2.result, o2.fs, o1.calls \o o2.calls)

\* main, lines 102-173.
main(args, env, files, failing, partial, answer, replies, W, N) ==
  LET api_key == load_from_env(openai, env)
      enable_llm_correction == ~args.no_correction /\ ~Falsy(api_key)
      processor == VideoProcessor(args.provider, api_key, env, failing)
      c1 == <<"VideoProcessor">>
      video_info == get_video_info(files, args.video_path, failing)
      c2 == c1 \o <<"get_video_info">>
      run == process_video(args.video_path, enable_llm_correction, files,
                           failing, partial, answer,
                           processor.value.provider, replies, W, N)
      c3 == c2 \o <<"process_video">> \o run.calls
      \* lines 152-153; keep_audio is ProcessingConfig's default
      cleanup == cleanup_temp_files(run.result.value, FALSE, run.fs, failing)
      c4 == c3 \o <<"cleanup_temp_files">> \o cleanup.calls
  IN IF ~exists(files, args.video_path)
     THEN Run(Raised("SystemExit"), files, <<>>, <<>>)
     ELSE IF processor.kind = "raise"
     THEN Run(Raised("SystemExit"), files, c1, <<>>)
     ELSE IF video_info.kind = "raise"
     THEN Run(Raised("SystemExit"), files, c2, <<>>)
     ELSE IF run.result.kind = "raise"
     THEN Run(Raised("SystemExit"), run.fs, c3, <<>>)
     ELSE IF args.keep_temp
     THEN Run(run.result, run.fs, c3, run.srt_file)
     ELSE IF cleanup.result.kind = "raise"
     THEN Run(Raised("SystemExit"), cleanup.fs, c4, run.srt_file)
     ELSE Run(run.result, cleanup.fs, c4, run.srt_file)

MainFaults == {"load_model", "VideoFileClip", "save_srt", "remove_audio"}

InitMain ==
  /\ max_chars_per_line = DefaultMaxChars
  /\ max_lines_per_subtitle = DefaultMaxLines
  /\ text = <<>>
  /\ lines = <<>>
  /\ formatted_text = <<>>
  /\ seconds = ZeroSeconds
  /\ srt_time = ZeroTime
  /\ srt_file = <<>>
  /\ segments \in WhisperAnswers
  /\ llm \in [1..Len(segments) -> {NoReply, Reply(<<" ", "b", " ">>)}]
  /\ environ \in Environments
  /\ \E provider \in {openai, gemini}, no_correction \in BOOLEAN,
        keep_temp \in BOOLEAN :
       argv = [video_path |-> Path("video", mp4),
               provider |-> provider,
               no_correction |-> no_correction,
               keep_temp |-> keep_temp]
  /\ \E present \in SUBSET {argv.video_path} : fs = [q \in present |-> "video"]
  /\ faults \in SUBSET MainFaults
  /\ calls = <<>>
  /\ result = NoResult
  /\ pc = "call"

Main ==
  /\ pc = "call"
  /\ \E partial \in BOOLEAN :
       LET run == main(argv, environ, fs, faults, partial, segments, llm,
                       max_chars_per_line, max_lines_per_subtitle)
       IN /\ result' = run.result
          /\ fs' = run.fs
          /\ calls' = run.calls
          /\ srt_file' = run.srt_file
          /\ pc' = IF run.result.kind = "raise" THEN "raised" ELSE "done"
  /\ UNCHANGED <<max_chars_per_line, max_lines_per_subtitle, text, lines,
                 formatted_text, seconds, srt_time, segments>>
  /\ UNCHANGED <<environ, argv, faults, llm>>

NextMain == Main

SpecMain == InitMain /\ [][NextMain]_vars

\* C18: when correction is asked for and the configuration holds no API key,
\* main turns correction off and goes on: if nothing else fails, the
\* processor is built, the video is processed without correction and the SRT
\* file is written.
C18_RunsWithoutKey ==
  (/\ pc # "call"
   /\ exists(fs, argv.video_path)
   /\ ~argv.no_correction
   /\ Falsy(load_from_env(openai, environ))
   /\ faults = {}) =>
    /\ pc = "done"
    /\ result.kind = "return"
    /\ Entered("VideoProcessor")
    /\ Entered("generate_srt")
    /\ ~Entered("correct_segments")
    /\ exists(fs, result.value.srt)

-----------------------------------------------------------------------------
(***************************************************************************)
(* cleanup_temp_files, called by main or on its own with any result_paths,  *)
(* any of the files present and either value of keep_audio.                 *)
(***************************************************************************)
AllPaths == result_paths(Path("video", mp4))

\* The files of a run: the video, the audio, the transcription, the two text
\* files and the SRT.
RunFiles ==
  {AllPaths.video, AllPaths.audio, AllPaths.transcription,
   AllPaths.pre_llm_txt, AllPaths.post_llm_txt, AllPaths.srt}

InitCleanup ==
  /\ GeneratorIdle
  /\ \E keys \in SUBSET {"audio", "transcription"}, keep_audio \in BOOLEAN :
       argv = [result_paths |->
                 [k \in keys \cup {"video", "output_dir", "pre_llm_txt",
                                    "post_llm_txt", "srt"} |-> AllPaths[k]],
               keep_audio |-> keep_audio]
  /\ \E present \in SUBSET RunFiles : fs = [q \in present |-> "file"]
  /\ faults \in SUBSET {"remove_audio", "remove_transcription"}
  /\ environ = <<>>
  /\ llm = <<>>
  /\ calls = <<>>
  /\ result = NoResult
  /\ pc = "cleanup"

CleanupTempFiles ==
  /\ pc = "cleanup"
  /\ LET o == cleanup_temp_files(argv.result_paths, argv.keep_audio, fs, faults)
     IN /\ result' = o.result
        /\ fs' = o.fs
        /\ calls' = o.calls
        /\ pc' = IF o.result.kind = "raise" THEN "raised" ELSE "done"
  /\ UNCHANGED <<environ, argv, faults, llm>>
  /\ UNCHANGED generator

InitProgram == InitMain \/ InitCleanup

NextProgram == Main \/ CleanupTempFiles

SpecProgram == InitProgram /\ [][NextProgram]_vars

\* The path under the key is to be deleted by this call.
Doomed(key) ==
  /\ key \in DOMAIN argv.result_paths
  /\ key = "transcription" \/ (key = "audio" /\ ~argv.keep_audio)

\* C22: cleanup_temp_files returns without raising; the only files it can
\* delete are the transcription and, unless keep_audio, the audio, so the
\* SRT, the two text files and the video stay and no file changes; it calls
\* os.remove on each of the two that exists, also when the call on the other
\* failed, and a call that did not fail deleted its file.  main enters it
\* only when keep_temp is off and after process_video ran to its last stage,
\* and then the SRT, the text files and the video are still there.
C22_CleanupFrame ==
  [][/\ pc = "cleanup" =>
          /\ pc' = "done"
          /\ result'.kind = "return"
          /\ DOMAIN fs' \subseteq DOMAIN fs
          /\ \A q \in DOMAIN fs' : fs'[q] = fs[q]
          /\ \A q \in DOMAIN fs \ DOMAIN fs' :
               \E key \in {"audio", "transcription"} :
                 Doomed(key) /\ q = argv.result_paths[key]
          /\ \A q \in {AllPaths.srt, AllPaths.pre_llm_txt,
                       AllPaths.post_llm_txt, AllPaths.video} :
               exists(fs, q) => exists(fs', q)
          /\ \A key \in {"audio", "transcription"} :
               LET name == IF key = "audio" THEN "remove_audio"
                           ELSE "remove_transcription"
                   attempted == \E i \in 1..Len(calls') : calls'[i] = name
               IN /\ attempted <=> (Doomed(key)
                                     /\ exists(fs, argv.result_paths[key]))
                  /\ (attempted /\ name \notin faults)
                       => ~exists(fs', argv.result_paths[key])
     /\ pc = "call" =>
          LET at(stage) == CHOOSE i \in 1..Len(calls') : calls'[i] = stage
              entered(stage) == \E i \in 1..Len(calls') : calls'[i] = stage
          IN /\ entered("cleanup_temp_files") =>
                  /\ ~argv.keep_temp
                  /\ entered("validate_srt")
                  /\ at("validate_srt") < at("cleanup_temp_files")
                  /\ pc' = "done"
                  /\ result'.kind = "return"
                  /\ exists(fs', result'.value.srt)
                  /\ exists(fs', result'.value.video)
                  /\ ~exists(fs', result'.value.transcription)
             /\ argv.keep_temp => DOMAIN fs \subseteq DOMAIN fs'
             /\ exists(fs, argv.video_path) => exists(fs', argv.video_path)]_vars

\* The removal of the audio failed and the transcription was deleted all the
\* same, next to an SRT that stayed.
C22_Witness ==
  /\ pc = "done"
  /\ "result_paths" \in DOMAIN argv
  /\ ~argv.keep_audio
  /\ "remove_audio" \in faults
  /\ calls = <<"remove_audio", "remove_transcription">>
  /\ exists(fs, AllPaths.audio)
  /\ ~exists(fs, AllPaths.transcription)
  /\ exists(fs, AllPaths.srt)
====
